---- MODULE Spec2Model ----
(***************************************************************************)
(* A model of the oal compiler front-end: the interned token list and the  *)
(* tokenizer (oal-model/src/lexicon.rs), the parse entry point             *)
(* (oal-syntax/src/lib.rs), the structural type-check                      *)
(* (oal-compiler/src/typecheck.rs), the reduction pipeline exercised by    *)
(* oal-compiler/src/reduction_tests.rs and the path-item projection of the *)
(* emitter (oal-codegen/src/lib.rs).                                       *)
(***************************************************************************)
EXTENDS Integers, Sequences, FiniteSets, TLC

VARIABLES
    list,       \* TokenList.list: the arena of (token, span) in push order
    dict,       \* TokenList.dict: the interner, symbol i resolves to dict[i]
    issued,     \* log of the register calls: <<string, symbol returned>>
    pushed,     \* log of the push calls: [idx, tok, span]
    lpc,        \* position of the lexicon driver
    lexOut,     \* what lexer.parse_recovery returned: [tokens, errs]
    tq,         \* tokens the for_each of tokenize has still to take
    tokRes,     \* what tokenize returned
    parseRes,   \* what parse returned
    analyzed,   \* number of runs of the grammar analysis
    tcNode,     \* the node handed to type_check
    tcRes,      \* what type_check returned for it
    tpc,        \* position of the type-check driver
    cgRel,      \* the relation handed to relation_path_item
    cgIter,     \* the (method, transfer) pairs its loop has still to take
    cgItem,     \* the path item under construction
    cpc,        \* position in relation_path_item
    code,       \* the program as parsed, kept for reference
    prg,        \* the program the passes walk and rewrite in place
    env,        \* the environment of the pass under way
    ri,         \* the statement the pass under way is at
    rpc,        \* the pass under way
    rerr        \* the error that stopped the pipeline, if any

lexVars == <<list, dict, issued, pushed, lpc>>

parseVars == <<lexOut, tq, tokRes, parseRes, analyzed>>

tcVars == <<tcNode, tcRes, tpc>>

cgVars == <<cgRel, cgIter, cgItem, cpc>>

redVars == <<code, prg, env, ri, rpc, rerr>>

nonLexVars == <<tcVars, cgVars, redVars>>

nonTcVars == <<lexVars, parseVars, cgVars, redVars>>

nonCgVars == <<lexVars, parseVars, tcVars, redVars>>

nonRedVars == <<lexVars, parseVars, tcVars, cgVars>>

vars == <<lexVars, parseVars, tcVars, cgVars, redVars>>

(***************************************************************************)
(* Bounds                                                                  *)
(***************************************************************************)
MaxTokens == 3
MaxRegs == 3
MaxLexed == 2
MaxErrs == 2
MaxOperands == 3
MaxXfers == 2
MaxSegments == 2
MaxStmts == 5

(***************************************************************************)
(* lexicon.rs: spans, tokens, the token list                               *)
(***************************************************************************)
Span(s, e) == [start |-> s, end |-> e]

NoValue == 0

Strings == {"a", "b"}

Kinds == {"Identifier", "Keyword", "Space"}

\* Lexeme::is_trivia: whitespace and comments are trivia
is_trivia(tok) == tok.kind = "Space"

Token(k, v) == [kind |-> k, value |-> v]

TokenAlias(k, i) == [kind |-> k, index |-> i]

\* StringInterner::get_or_intern behind Interner::register
RegisterNoDedup(d, s) == [dict |-> Append(d, s), sym |-> Len(d) + 1]

register(d, s) ==
    IF \E i \in 1..Len(d) : d[i] = s
    THEN [dict |-> d, sym |-> CHOOSE i \in 1..Len(d) : d[i] = s]
    ELSE [dict |-> Append(d, s), sym |-> Len(d) + 1]

\* Interner::resolve: dict.resolve(sym).unwrap()
resolve(d, sym) == IF sym \in 1..Len(d) THEN d[sym] ELSE "panic"

\* TokenList::get: list.get(id).unwrap()
Panic == <<Token("panic", NoValue), Span(0, 0)>>

get(l, id) == IF id \in 1..Len(l) THEN l[id] ELSE Panic

\* TokenList::push: list.push_back(t), returning the new item's index
push(l, t) == [list |-> Append(l, t), idx |-> Len(l) + 1]

\* TokenList::len: the end of the tail's span plus one, 0 for an empty list
len(l) == IF Len(l) = 0 THEN 0 ELSE l[Len(l)][2].end + 1

RECURSIVE filter_map(_, _)
filter_map(l, i) ==
    IF i > Len(l) THEN <<>>
    ELSE LET token == l[i][1]
             span == l[i][2]
         IN  IF is_trivia(token)
             THEN filter_map(l, i + 1)
             ELSE <<(<<TokenAlias(token.kind, i), span>>)>> \o filter_map(l, i + 1)

RECURSIVE filter_map_all(_, _)
filter_map_all(l, i) ==
    IF i > Len(l) THEN <<>>
    ELSE <<(<<TokenAlias(l[i][1].kind, i), l[i][2]>>)>> \o filter_map_all(l, i + 1)

StreamNoFilter(l) == [eoi |-> Span(len(l), len(l) + 1), items |-> filter_map_all(l, 1)]

\* TokenList::stream
stream(l) == [eoi |-> Span(len(l), len(l) + 1), items |-> filter_map(l, 1)]

(***************************************************************************)
(* The token list under direct use: any sequence of register and push     *)
(***************************************************************************)
Spans == {Span(0, 1), Span(1, 3)}

None == [some |-> FALSE, val |-> <<>>]

Some(v) == [some |-> TRUE, val |-> v]

Pending == [ok |-> FALSE, err |-> "pending", val |-> <<>>]

Ok(v) == [ok |-> TRUE, err |-> "", val |-> v]

Err(e) == [ok |-> FALSE, err |-> e, val |-> <<>>]

ParseIdle ==
    /\ lexOut = [tokens |-> None, errs |-> <<>>]
    /\ tq = <<>>
    /\ tokRes = Pending
    /\ parseRes = Pending
    /\ analyzed = 0

TcPending == [ok |-> FALSE, kind |-> "pending", msg |-> ""]

TcIdle ==
    /\ tcNode = [k |-> "None"]
    /\ tcRes = TcPending
    /\ tpc = "idle"

CgIdle ==
    /\ cgRel = [uri |-> <<>>, xfers |-> <<>>]
    /\ cgIter = <<>>
    /\ cgItem = [parameters |-> <<>>]
    /\ cpc = "idle"

RedIdle ==
    /\ code = <<>>
    /\ prg = <<>>
    /\ env = <<>>
    /\ ri = 0
    /\ rpc = "idle"
    /\ rerr = ""

NonLexIdle == TcIdle /\ CgIdle /\ RedIdle

LexIdle ==
    /\ list = <<>>
    /\ dict = <<>>
    /\ issued = <<>>
    /\ pushed = <<>>
    /\ lpc = "idle"
    /\ ParseIdle

LexInit ==
    /\ list = <<>>
    /\ dict = <<>>
    /\ issued = <<>>
    /\ pushed = <<>>
    /\ lpc = "api"
    /\ ParseIdle
    /\ NonLexIdle

Register ==
    /\ lpc = "api"
    /\ Len(issued) < MaxRegs
    /\ \E s \in Strings :
        LET r == register(dict, s)
        IN  /\ dict' = r.dict
            /\ issued' = Append(issued, <<s, r.sym>>)
    /\ UNCHANGED <<list, pushed, lpc, parseVars, nonLexVars>>

Push ==
    /\ lpc = "api"
    /\ Len(pushed) < MaxTokens
    /\ \E k \in Kinds, sp \in Spans :
        LET v == IF k = "Identifier" THEN Len(dict) ELSE NoValue
            t == <<Token(k, v), sp>>
            r == push(list, t)
        IN  /\ list' = r.list
            /\ pushed' = Append(pushed, [idx |-> r.idx, tok |-> t[1], span |-> sp])
    /\ UNCHANGED <<dict, issued, lpc, parseVars, nonLexVars>>

LexNext == Register \/ Push

SpecLexicon == LexInit /\ [][LexNext]_vars

(***************************************************************************)
(* lexicon.rs tokenize and oal-syntax lib.rs parse                         *)
(***************************************************************************)
SeqsUpTo(S, n) == UNION {[1..k -> S] : k \in 0..n}

\* the tokens a lexer yields: identifiers carry their text, the others nothing
RawTokens ==
    {Token("Identifier", "a"), Token("Identifier", "b"),
     Token("Keyword", ""), Token("Space", "")}

\* a lexer yields each token with the span of its place in the input
WithSpans(ts) == [i \in 1..Len(ts) |-> <<ts[i], Span(i - 1, i)>>]

LexErrors == {"unexpected@0", "unexpected@1"}

\* Lexeme::internalize: the text of a token is registered, its symbol kept
internalize(tok, d) ==
    IF tok.value = ""
    THEN [tok |-> Token(tok.kind, NoValue), dict |-> d]
    ELSE LET r == register(d, tok.value)
         IN  [tok |-> Token(tok.kind, r.sym), dict |-> r.dict]

SwapRemoveLast(errs) == errs[Len(errs)]

\* Vec::swap_remove(0): the element at index 0 (the last one takes its place)
swap_remove_0(errs) == errs[1]

ParseInit ==
    /\ list = <<>>
    /\ dict = <<>>
    /\ issued = <<>>
    /\ pushed = <<>>
    /\ lpc = "parse"
    /\ ParseIdle
    /\ NonLexIdle

\* tokenize: lexer.parse_recovery(stream)
LexerRun ==
    /\ lpc = "parse"
    /\ \E ts \in {None} \cup {Some(WithSpans(t)) : t \in SeqsUpTo(RawTokens, MaxLexed)},
          es \in SeqsUpTo(LexErrors, MaxErrs) :
        lexOut' = [tokens |-> ts, errs |-> es]
    /\ lpc' = "lexed"
    /\ UNCHANGED <<list, dict, issued, pushed, tq, tokRes, parseRes, analyzed, nonLexVars>>

\* tokenize: if !errs.is_empty() { Err(errs.swap_remove(0).into()) }
TokenizeErr ==
    /\ lpc = "lexed"
    /\ lexOut.errs # <<>>
    /\ tokRes' = Err(swap_remove_0(lexOut.errs))
    /\ lpc' = "tokenized"
    /\ UNCHANGED <<list, dict, issued, pushed, lexOut, tq, parseRes, analyzed, nonLexVars>>

\* tokenize: no error, the tokens (if any) go through the for_each
TokenizeBegin ==
    /\ lpc = "lexed"
    /\ lexOut.errs = <<>>
    /\ tq' = IF lexOut.tokens.some THEN lexOut.tokens.val ELSE <<>>
    /\ lpc' = "each"
    /\ UNCHANGED <<list, dict, issued, pushed, lexOut, tokRes, parseRes, analyzed, nonLexVars>>

\* tokenize: one turn of the for_each: internalize, then push
TokenizeEach ==
    /\ lpc = "each"
    /\ tq # <<>>
    /\ LET token == Head(tq)[1]
           span == Head(tq)[2]
           n == internalize(token, dict)
           r == push(list, <<n.tok, span>>)
       IN  /\ dict' = n.dict
           /\ list' = r.list
           /\ pushed' = Append(pushed, [idx |-> r.idx, tok |-> n.tok, span |-> span])
    /\ tq' = Tail(tq)
    /\ UNCHANGED <<issued, lpc, lexOut, tokRes, parseRes, analyzed, nonLexVars>>

\* tokenize: Ok(token_list)
TokenizeOk ==
    /\ lpc = "each"
    /\ tq = <<>>
    /\ tokRes' = Ok(list)
    /\ lpc' = "tokenized"
    /\ UNCHANGED <<list, dict, issued, pushed, lexOut, tq, parseRes, analyzed, nonLexVars>>

\* parse: tokenize(input, lexer::lexer())? returns the error
ParseErr ==
    /\ lpc = "tokenized"
    /\ ~tokRes.ok
    /\ parseRes' = Err(tokRes.err)
    /\ lpc' = "done"
    /\ UNCHANGED <<list, dict, issued, pushed, lexOut, tq, tokRes, analyzed, nonLexVars>>

\* parse: analyze(tokens, parser::parser())?, the grammar accepts or not
Analyze ==
    /\ lpc = "tokenized"
    /\ tokRes.ok
    /\ analyzed' = analyzed + 1
    /\ \E accepted \in BOOLEAN :
        parseRes' = IF accepted THEN Ok(stream(tokRes.val).items) ELSE Err("ParseError")
    /\ lpc' = "done"
    /\ UNCHANGED <<list, dict, issued, pushed, lexOut, tq, tokRes, nonLexVars>>

ParseNext ==
    \/ LexerRun
    \/ TokenizeErr
    \/ TokenizeBegin
    \/ TokenizeEach
    \/ TokenizeOk
    \/ ParseErr
    \/ Analyze

SpecParse == ParseInit /\ [][ParseNext]_vars

(***************************************************************************)
(* typecheck.rs: the structural type-check of one node                     *)
(***************************************************************************)
Tags == {"Primitive", "Uri", "Object", "Array", "Content", "Relation", "Var"}

\* Tag::is_schema
is_schema(t) == t \in {"Primitive", "Uri", "Object", "Array"}

TcOk == [ok |-> TRUE, kind |-> "", msg |-> ""]

Error(kind, msg) == [ok |-> FALSE, kind |-> kind, msg |-> msg]

Methods == <<"Get", "Put", "Post", "Patch", "Delete", "Options", "Head">>

MethodSet == {Methods[i] : i \in 1..Len(Methods)}

\* Iterator::all over a sequence of booleans, stopping at the first false
RECURSIVE all(_, _)
all(bs, i) ==
    IF i > Len(bs) THEN TRUE
    ELSE IF ~bs[i] THEN FALSE
    ELSE all(bs, i + 1)

RECURSIVE any(_, _)
any(bs, i) ==
    IF i > Len(bs) THEN FALSE
    ELSE IF bs[i] THEN TRUE
    ELSE any(bs, i + 1)

OpTypeCheckJoinSchema(n) ==
    IF n.op = "Join"
    THEN IF all([i \in 1..Len(n.exprs) |-> is_schema(n.exprs[i])], 1)
         THEN TcOk
         ELSE Error("InvalidTypes", "ill-formed join")
    ELSE IF all([i \in 1..Len(n.exprs) |-> is_schema(n.exprs[i])], 1)
         THEN TcOk
         ELSE Error("InvalidTypes", "ill-formed alternative")

OpTypeCheckAny(n) ==
    IF n.op = "Join"
    THEN IF all([i \in 1..Len(n.exprs) |-> n.exprs[i] = "Object"], 1)
         THEN TcOk
         ELSE Error("InvalidTypes", "ill-formed join")
    ELSE IF any([i \in 1..Len(n.exprs) |-> is_schema(n.exprs[i])], 1)
         THEN TcOk
         ELSE Error("InvalidTypes", "ill-formed alternative")

\* TypeChecked for VariadicOp: n.exprs holds the tags of the operands
op_type_check(n) ==
    IF n.op = "Join"
    THEN IF all([i \in 1..Len(n.exprs) |-> n.exprs[i] = "Object"], 1)
         THEN TcOk
         ELSE Error("InvalidTypes", "ill-formed join")
    ELSE IF all([i \in 1..Len(n.exprs) |-> is_schema(n.exprs[i])], 1)
         THEN TcOk
         ELSE Error("InvalidTypes", "ill-formed alternative")

XferCheckNoDomain(t) == IF t.some THEN t.range = "Content" ELSE TRUE

\* the closure of Relation::type_check applied to one value of xfers
xfer_check(t) ==
    IF t.some
    THEN LET domain_check == IF t.domain # "None" THEN t.domain = "Content" ELSE TRUE
             range_check == t.range = "Content"
         IN  domain_check /\ range_check
    ELSE TRUE

\* TypeChecked for Relation: n.uri is the tag of the uri, n.xfers the transfers
rel_type_check(n) ==
    LET uri_check == n.uri = "Uri"
        xfers_check == all([i \in 1..Len(Methods) |-> xfer_check(n.xfers[Methods[i]])], 1)
    IN  IF uri_check /\ xfers_check
        THEN TcOk
        ELSE Error("InvalidTypes", "ill-formed relation")

UriTypeCheckEverySegment(n) ==
    IF all([i \in 1..Len(n.spec) |-> n.spec[i].tag = "Primitive"], 1)
    THEN TcOk
    ELSE Error("InvalidTypes", "ill-formed URI")

\* TypeChecked for Uri: n.spec holds the segments, a variable with its tag
uri_type_check(n) ==
    LET vars_check ==
            all([i \in 1..Len(n.spec) |->
                    IF n.spec[i].variable THEN n.spec[i].tag = "Primitive" ELSE TRUE], 1)
    IN  IF vars_check THEN TcOk ELSE Error("InvalidTypes", "ill-formed URI")

\* TypeChecked for Array: n.item is the tag of the item
array_type_check(n) ==
    IF is_schema(n.item) THEN TcOk ELSE Error("InvalidTypes", "ill-formed array")

\* TypeChecked for Object: n.props holds the tags of the properties
object_type_check(n) ==
    IF all([i \in 1..Len(n.props) |-> is_schema(n.props[i])], 1)
    THEN TcOk
    ELSE Error("InvalidTypes", "ill-formed object")

\* typecheck.rs type_check: the dispatch on the kind of the node
type_check(n) ==
    CASE n.k = "Op" -> op_type_check(n)
      [] n.k = "Rel" -> rel_type_check(n)
      [] n.k = "Uri" -> uri_type_check(n)
      [] n.k = "Array" -> array_type_check(n)
      [] n.k = "Object" -> object_type_check(n)
      [] OTHER -> TcOk

NoXfer == [some |-> FALSE, domain |-> "None", range |-> "None"]

Xfer(d, r) == [some |-> TRUE, domain |-> d, range |-> r]

RelTags == {"Uri", "Content", "Primitive"}

\* the sets of at most MaxXfers methods that hold a transfer
PresentSets == {T \in SUBSET MethodSet : Cardinality(T) <= MaxXfers}

PresentXfers == {Xfer(d, r) : d \in {"None"} \cup RelTags, r \in RelTags}

\* the xfers map with the transfers f on the methods of S and none elsewhere
XferMap(S, f) == [m \in MethodSet |-> IF m \in S THEN f[m] ELSE NoXfer]

Segments ==
    {[variable |-> FALSE, tag |-> "None"]} \cup {[variable |-> TRUE, tag |-> t] : t \in Tags}

TcInit ==
    /\ tcNode = [k |-> "None"]
    /\ tcRes = TcPending
    /\ tpc = "ready"
    /\ LexIdle
    /\ CgIdle
    /\ RedIdle

\* the driver takes the next node
TcNextNode ==
    /\ tpc = "checked"
    /\ tpc' = "ready"
    /\ tcNode' = [k |-> "None"]
    /\ tcRes' = TcPending
    /\ UNCHANGED nonTcVars

CheckOp ==
    /\ tpc = "ready"
    /\ tpc' = "checked"
    /\ \E op \in {"Join", "Sum", "Any"}, ts \in SeqsUpTo(Tags, MaxOperands) :
        LET n == [k |-> "Op", op |-> op, exprs |-> ts]
        IN  /\ tcNode' = n
            /\ tcRes' = type_check(n)
    /\ UNCHANGED nonTcVars

CheckRel ==
    /\ tpc = "ready"
    /\ tpc' = "checked"
    /\ \E u \in RelTags, S \in PresentSets :
       \E f \in [S -> PresentXfers] :
        LET n == [k |-> "Rel", uri |-> u, xfers |-> XferMap(S, f)]
        IN  /\ tcNode' = n
            /\ tcRes' = type_check(n)
    /\ UNCHANGED nonTcVars

CheckUri ==
    /\ tpc = "ready"
    /\ tpc' = "checked"
    /\ \E sp \in SeqsUpTo(Segments, MaxSegments) :
        LET n == [k |-> "Uri", spec |-> sp]
        IN  /\ tcNode' = n
            /\ tcRes' = type_check(n)
    /\ UNCHANGED nonTcVars

CheckArray ==
    /\ tpc = "ready"
    /\ tpc' = "checked"
    /\ \E t \in Tags :
        LET n == [k |-> "Array", item |-> t]
        IN  /\ tcNode' = n
            /\ tcRes' = type_check(n)
    /\ UNCHANGED nonTcVars

CheckObject ==
    /\ tpc = "ready"
    /\ tpc' = "checked"
    /\ \E ts \in SeqsUpTo(Tags, MaxOperands) :
        LET n == [k |-> "Object", props |-> ts]
        IN  /\ tcNode' = n
            /\ tcRes' = type_check(n)
    /\ UNCHANGED nonTcVars

CheckOther ==
    /\ tpc = "ready"
    /\ tpc' = "checked"
    /\ \E k \in {"Prim", "Var", "Binding", "Lambda", "App"} :
        LET n == [k |-> k]
        IN  /\ tcNode' = n
            /\ tcRes' = type_check(n)
    /\ UNCHANGED nonTcVars

TcNext ==
    \/ TcNextNode
    \/ CheckOp
    \/ CheckRel
    \/ CheckUri
    \/ CheckArray
    \/ CheckObject
    \/ CheckOther

SpecTypeCheck == TcInit /\ [][TcNext]_vars

(***************************************************************************)
(* oal-codegen lib.rs: Builder::relation_path_item                         *)
(***************************************************************************)
NoSchema == "None"

Schemas == {"SchemaA", "SchemaB"}

\* Builder::schema on an evaluated schema
schema(sch) == [schema_kind |-> sch]

media_type == "application/json"

\* Builder::uri_params: one path parameter per variable segment, in order
uri_params(uri) ==
    LET vs == SelectSeq(uri, LAMBDA seg : seg.variable)
    IN  [i \in 1..Len(vs) |-> [name |-> vs[i].name, required |-> TRUE]]

DefaultPathItem(parameters) ==
    [parameters |-> parameters,
     get |-> None, put |-> None, post |-> None, patch |-> None,
     delete |-> None, options |-> None, head |-> None]

\* the filter_map over rel.xfers: the present transfers with their method
RECURSIVE present_xfers(_, _)
present_xfers(xfers, i) ==
    IF i > Len(Methods) THEN <<>>
    ELSE IF xfers[Methods[i]].some
         THEN <<(<<Methods[i], xfers[Methods[i]].val>>)>> \o present_xfers(xfers, i + 1)
         ELSE present_xfers(xfers, i + 1)

\* the Operation built from one transfer
operation(xfer) ==
    LET request ==
            IF xfer.domain = NoSchema THEN None
            ELSE Some([content |-> <<media_type, schema(xfer.domain)>>])
        response ==
            IF xfer.range = NoSchema THEN None
            ELSE Some([content |-> <<media_type, schema(xfer.range)>>])
    IN  [request_body |-> request, responses |-> [default |-> response]]

SetSlotSwapped(item, method, op) ==
    CASE method = "Get" -> [item EXCEPT !.put = Some(op)]
      [] method = "Put" -> [item EXCEPT !.get = Some(op)]
      [] method = "Post" -> [item EXCEPT !.post = Some(op)]
      [] method = "Patch" -> [item EXCEPT !.patch = Some(op)]
      [] method = "Delete" -> [item EXCEPT !.delete = Some(op)]
      [] method = "Options" -> [item EXCEPT !.options = Some(op)]
      [] method = "Head" -> [item EXCEPT !.head = Some(op)]

\* the match on the method at the end of the loop body
set_slot(item, method, op) ==
    CASE method = "Get" -> [item EXCEPT !.get = Some(op)]
      [] method = "Put" -> [item EXCEPT !.put = Some(op)]
      [] method = "Post" -> [item EXCEPT !.post = Some(op)]
      [] method = "Patch" -> [item EXCEPT !.patch = Some(op)]
      [] method = "Delete" -> [item EXCEPT !.delete = Some(op)]
      [] method = "Options" -> [item EXCEPT !.options = Some(op)]
      [] method = "Head" -> [item EXCEPT !.head = Some(op)]

EvalTransfers == [domain : {NoSchema} \cup Schemas, range : {NoSchema} \cup Schemas]

\* the xfers map of an evaluated relation: f on the methods of S, None elsewhere
EvalXfers(S, f) == [m \in MethodSet |-> IF m \in S THEN Some(f[m]) ELSE None]

EvalUris ==
    {<<>>,
     <<[variable |-> FALSE, name |-> "items"], [variable |-> TRUE, name |-> "id"]>>}

CgInit ==
    /\ cgRel = [uri |-> <<>>, xfers |-> <<>>]
    /\ cgIter = <<>>
    /\ cgItem = [parameters |-> <<>>]
    /\ cpc = "call"
    /\ LexIdle
    /\ TcIdle
    /\ RedIdle

\* relation_path_item up to its loop: the parameters, the default path item
\* and the iterator over the present transfers
PathItemBegin ==
    /\ cpc = "call"
    /\ \E u \in EvalUris, S \in PresentSets :
       \E f \in [S -> EvalTransfers] :
        /\ cgRel' = [uri |-> u, xfers |-> EvalXfers(S, f)]
        /\ cgItem' = DefaultPathItem(uri_params(u))
        /\ cgIter' = present_xfers(EvalXfers(S, f), 1)
    /\ cpc' = "loop"
    /\ UNCHANGED nonCgVars

\* one turn of the loop: build the operation, store it in the method's slot
PathItemLoop ==
    /\ cpc = "loop"
    /\ cgIter # <<>>
    /\ LET method == Head(cgIter)[1]
           xfer == Head(cgIter)[2]
       IN  cgItem' = set_slot(cgItem, method, operation(xfer))
    /\ cgIter' = Tail(cgIter)
    /\ UNCHANGED <<cgRel, cpc, nonCgVars>>

\* the loop is over: path_item is returned
PathItemReturn ==
    /\ cpc = "loop"
    /\ cgIter = <<>>
    /\ cpc' = "done"
    /\ UNCHANGED <<cgRel, cgIter, cgItem, nonCgVars>>

CgNext ==
    \/ PathItemBegin
    \/ PathItemLoop
    \/ PathItemReturn

SpecCodegen == CgInit /\ [][CgNext]_vars

(***************************************************************************)
(* The compilation pipeline of reduction_tests.rs: expressions, the        *)
(* environment, the traversals and the passes                              *)
(***************************************************************************)
Node(k, n, xs) == [k |-> k, n |-> n, xs |-> xs]

Prim(p) == Node("Prim", p, <<>>)

Var(n) == Node("Var", n, <<>>)

Binding(n) == Node("Binding", n, <<>>)

Op(op, exprs) == Node("Op", op, exprs)

\* Lambda{bindings, body}: xs holds the bindings, then the body
Lambda(bindings, body) == Node("Lambda", "", Append(bindings, body))

\* App{head, args}: xs holds the head, then the arguments
App(head, args) == Node("App", "", <<head>> \o args)

Decl(n, e) == [name |-> n, expr |-> e]

bindings_of(l) == SubSeq(l.xs, 1, Len(l.xs) - 1)

body_of(l) == l.xs[Len(l.xs)]

\* Env::new: one empty frame; a frame lists its (name, value) pairs
EnvNew == <<(<<>>)>>

\* Env::declare: the name is bound in the innermost frame
declare(e, n, v) == [e EXCEPT ![Len(e)] = Append(@, <<n, v>>)]

push_frame(e) == Append(e, <<>>)

FrameLookupOldest(fr, n, i) ==
    LET js == {j \in 1..i : fr[j][1] = n}
    IN  IF js = {} THEN None ELSE Some(fr[CHOOSE j \in js : \A k \in js : j <= k][2])

\* the pair bound last to the name in one frame
RECURSIVE frame_lookup(_, _, _)
frame_lookup(fr, n, i) ==
    IF i = 0 THEN None
    ELSE IF fr[i][1] = n THEN Some(fr[i][2])
    ELSE frame_lookup(fr, n, i - 1)

RECURSIVE lookup_from(_, _, _)
lookup_from(e, n, d) ==
    IF d = 0 THEN None
    ELSE LET r == frame_lookup(e[d], n, Len(e[d]))
         IN  IF r.some THEN r ELSE lookup_from(e, n, d - 1)

\* Env::lookup: the nearest binding, from the innermost frame outwards
lookup(e, n) == lookup_from(e, n, Len(e))

ROk(e) == [ok |-> TRUE, e |-> e, err |-> ""]

RErr(kind) == [ok |-> FALSE, e |-> <<>>, err |-> kind]

RECURSIVE declare_all(_, _, _, _)
declare_all(e, names, vals, i) ==
    IF i > Len(names) THEN e
    ELSE declare_all(declare(e, names[i].n, vals[i]), names, vals, i + 1)

\* the frame of a lambda: each binding declares itself
lambda_env(e, l) == declare_all(push_frame(e), bindings_of(l), bindings_of(l), 1)

RECURSIVE flatten(_, _, _)
flatten(op, xs, i) ==
    IF i > Len(xs) THEN <<>>
    ELSE (IF xs[i].k = "Op" /\ xs[i].n = op THEN xs[i].xs ELSE <<xs[i]>>)
         \o flatten(op, xs, i + 1)

\* reduce on a variable: the value it is bound to, unless that is a Binding
reduce_var(e, node) ==
    LET r == lookup(e, node.n)
    IN  IF ~r.some THEN RErr("IdentifierNotInScope")
        ELSE IF r.val.k = "Binding" THEN ROk(node)
        ELSE ROk(r.val)

\* reduce on an operation: nested uses of the operator are flattened, an
\* operation with one operand is that operand
reduce_op(node) ==
    LET xs == flatten(node.n, node.xs, 1)
    IN  IF Len(xs) = 1 THEN ROk(xs[1]) ELSE ROk(Op(node.n, xs))

RECURSIVE transform_reduce(_, _)
RECURSIVE transform_seq(_, _, _)

ReduceAppNoSubst(e, node) ==
    IF node.xs[1].k # "Lambda" THEN RErr("InvalidTypes") ELSE ROk(body_of(node.xs[1]))

ReduceAppKept(e, node) ==
    IF node.xs[1].k # "Lambda" THEN RErr("InvalidTypes") ELSE ROk(node)

\* reduce on an application whose head and arguments are reduced: the body of
\* the lambda, reduced in a frame binding each parameter to its argument
reduce_app(e, node) ==
    LET head == node.xs[1]
        args == Tail(node.xs)
    IN  IF head.k # "Lambda" THEN RErr("InvalidTypes")
        ELSE IF Len(bindings_of(head)) # Len(args) THEN RErr("InvalidArity")
        ELSE transform_reduce(declare_all(push_frame(e), bindings_of(head), args, 1),
                              body_of(head))

transform_seq(e, xs, i) ==
    IF i > Len(xs) THEN ROk(xs)
    ELSE LET r == transform_reduce(e, xs[i])
         IN  IF ~r.ok THEN r
             ELSE transform_seq(e, [xs EXCEPT ![i] = r.e], i + 1)

\* Transform::transform with reduce: the children in surface order, then the node
transform_reduce(e, node) ==
    CASE node.k = "Var" -> reduce_var(e, node)
      [] node.k = "Lambda" ->
            LET r == transform_reduce(lambda_env(e, node), body_of(node))
            IN  IF ~r.ok THEN r ELSE ROk(Lambda(bindings_of(node), r.e))
      [] node.k = "App" ->
            LET r == transform_seq(e, node.xs, 1)
            IN  IF ~r.ok THEN r ELSE reduce_app(e, [node EXCEPT !.xs = r.e])
      [] node.k = "Op" ->
            LET r == transform_seq(e, node.xs, 1)
            IN  IF ~r.ok THEN r ELSE reduce_op([node EXCEPT !.xs = r.e])
      [] OTHER -> ROk(node)

CheckVarsNoBinding(e, node) ==
    IF node.k = "Var"
    THEN IF ~lookup(e, node.n).some THEN RErr("IdentifierNotInScope")
         ELSE RErr("Unknown")
    ELSE ROk(node)

\* reduction_tests.rs check_vars
check_vars(e, node) ==
    IF node.k = "Var"
    THEN LET r == lookup(e, node.n)
         IN  IF ~r.some THEN RErr("IdentifierNotInScope")
             ELSE IF r.val.k = "Binding" THEN ROk(node)
             ELSE RErr("Unknown")
    ELSE ROk(node)

\* constrain on one node: a variable must be in scope and the head of an
\* application must resolve to a lambda
constrain(e, node) ==
    CASE node.k = "Var" ->
            IF lookup(e, node.n).some THEN ROk(node) ELSE RErr("IdentifierNotInScope")
      [] node.k = "App" ->
            LET h == node.xs[1]
                r == IF h.k = "Var" THEN lookup(e, h.n) ELSE Some(h)
            IN  IF r.some /\ r.val.k = "Lambda" THEN ROk(node) ELSE RErr("InvalidTypes")
      [] OTHER -> ROk(node)

visit(f, e, node) == IF f = "check_vars" THEN check_vars(e, node) ELSE constrain(e, node)

RECURSIVE scan(_, _, _)
RECURSIVE scan_seq(_, _, _, _)

scan_seq(f, e, xs, i) ==
    IF i > Len(xs) THEN ROk(xs)
    ELSE LET r == scan(f, e, xs[i])
         IN  IF ~r.ok THEN r ELSE scan_seq(f, e, xs, i + 1)

\* Scan::scan: the children in surface order, then the node, nothing rewritten
scan(f, e, node) ==
    LET r == IF node.k = "Lambda"
             THEN scan(f, lambda_env(e, node), body_of(node))
             ELSE scan_seq(f, e, node.xs, 1)
    IN  IF ~r.ok THEN r ELSE visit(f, e, node)

\* the statements of compile_application and one more use of b and g
Pool ==
    <<Decl("b", Prim("Str")),
      Decl("g", Lambda(<<Binding("x")>>, Var("b"))),
      Decl("b", Prim("Bool")),
      Decl("f", Lambda(<<Binding("x")>>,
                       Op("Sum", <<Var("x"), Prim("Num"), App(Var("g"), <<Var("x")>>)>>))),
      Decl("a", App(Var("f"), <<Prim("Bool")>>)),
      Decl("a", Op("Sum", <<Var("b"), App(Var("g"), <<Var("b")>>)>>))>>

\* let b = str; let g x = b; let b = bool; let f x = x | num | g x; let a = f bool;
TestProgram == SubSeq(Pool, 1, 5)

RedInit ==
    /\ code = <<>>
    /\ prg = <<>>
    /\ env = <<>>
    /\ ri = 0
    /\ rpc = "parse"
    /\ rerr = ""
    /\ LexIdle
    /\ TcIdle
    /\ CgIdle

\* parse(code): a program of at most MaxStmts statements
Parse ==
    /\ rpc = "parse"
    /\ \E n \in 0..MaxStmts :
       \E p \in [1..n -> 1..Len(Pool)] :
        /\ code' = [i \in 1..n |-> Pool[p[i]]]
        /\ prg' = [i \in 1..n |-> Pool[p[i]]]
    /\ env' = EnvNew
    /\ ri' = 1
    /\ rpc' = "constrain"
    /\ UNCHANGED <<rerr, nonRedVars>>

\* tag_type and constrain at one statement: the expression, then the name is bound
ConstrainStmt ==
    /\ rpc = "constrain"
    /\ ri <= Len(prg)
    /\ LET r == scan("constrain", env, prg[ri].expr)
       IN  IF r.ok
           THEN /\ env' = declare(env, prg[ri].name, prg[ri].expr)
                /\ ri' = ri + 1
                /\ UNCHANGED <<rpc, rerr>>
           ELSE /\ rpc' = "rejected"
                /\ rerr' = r.err
                /\ UNCHANGED <<env, ri>>
    /\ UNCHANGED <<code, prg, nonRedVars>>

\* unify and substitute: the reduce pass starts in a new environment
UnifySubstitute ==
    /\ rpc = "constrain"
    /\ ri > Len(prg)
    /\ env' = EnvNew
    /\ ri' = 1
    /\ rpc' = "reduce"
    /\ UNCHANGED <<code, prg, rerr, nonRedVars>>

\* reduce at one statement: the expression is reduced, then the name is bound
ReduceStmt ==
    /\ rpc = "reduce"
    /\ ri <= Len(prg)
    /\ LET r == transform_reduce(env, prg[ri].expr)
       IN  IF r.ok
           THEN /\ prg' = [prg EXCEPT ![ri].expr = r.e]
                /\ env' = declare(env, prg[ri].name, r.e)
                /\ ri' = ri + 1
                /\ UNCHANGED <<rpc, rerr>>
           ELSE /\ rpc' = "rejected"
                /\ rerr' = r.err
                /\ UNCHANGED <<prg, env, ri>>
    /\ UNCHANGED <<code, nonRedVars>>

\* the reduce pass is over: the scan with check_vars starts in a new environment
ReduceDone ==
    /\ rpc = "reduce"
    /\ ri > Len(prg)
    /\ env' = EnvNew
    /\ ri' = 1
    /\ rpc' = "check"
    /\ UNCHANGED <<code, prg, rerr, nonRedVars>>

\* check_vars at one statement
CheckStmt ==
    /\ rpc = "check"
    /\ ri <= Len(prg)
    /\ LET r == scan("check_vars", env, prg[ri].expr)
       IN  IF r.ok
           THEN /\ env' = declare(env, prg[ri].name, prg[ri].expr)
                /\ ri' = ri + 1
                /\ UNCHANGED <<rpc, rerr>>
           ELSE /\ rpc' = "incomplete"
                /\ rerr' = r.err
                /\ UNCHANGED <<env, ri>>
    /\ UNCHANGED <<code, prg, nonRedVars>>

\* the scan is over: the compilation is complete
CheckDone ==
    /\ rpc = "check"
    /\ ri > Len(prg)
    /\ rpc' = "done"
    /\ UNCHANGED <<code, prg, env, ri, rerr, nonRedVars>>

RedNext ==
    \/ Parse
    \/ ConstrainStmt
    \/ UnifySubstitute
    \/ ReduceStmt
    \/ ReduceDone
    \/ CheckStmt
    \/ CheckDone

SpecReduce == RedInit /\ [][RedNext]_vars

(***************************************************************************)
(* Reading the state of the pipeline                                       *)
(***************************************************************************)
\* the number of statements the reduce pass has rewritten
NumReduced ==
    IF rpc = "reduce" THEN ri - 1
    ELSE IF rpc \in {"check", "done", "incomplete"} THEN Len(prg)
    ELSE 0

\* the last declaration of n before statement i, 0 when there is none
LastDecl(n, i) ==
    LET js == {j \in 1..(i - 1) : code[j].name = n}
    IN  IF js = {} THEN 0 ELSE CHOOSE j \in js : \A k \in js : k <= j

RECURSIVE HasKind(_, _)
HasKind(e, k) == e.k = k \/ \E i \in 1..Len(e.xs) : HasKind(e.xs[i], k)

\* the variables of e that no enclosing lambda of e binds
RECURSIVE FreeVars(_, _)
FreeVars(e, bound) ==
    IF e.k = "Var" THEN {e.n} \ bound
    ELSE IF e.k = "Lambda"
         THEN FreeVars(body_of(e),
                       bound \cup {bindings_of(e)[i].n : i \in 1..Len(bindings_of(e))})
         ELSE UNION {FreeVars(e.xs[i], bound) : i \in 1..Len(e.xs)}

\* e with the variable x replaced by v
RECURSIVE Subst(_, _, _)
Subst(e, x, v) ==
    IF e.k = "Var" THEN (IF e.n = x THEN v ELSE e)
    ELSE [e EXCEPT !.xs = [i \in 1..Len(e.xs) |-> Subst(e.xs[i], x, v)]]

\* a function whose body is one name that is not its parameter
IsConstFn(e) ==
    /\ e.k = "Lambda"
    /\ body_of(e).k = "Var"
    /\ \A i \in 1..Len(bindings_of(e)) : bindings_of(e)[i].n # body_of(e).n

(***************************************************************************)
(* C1: top-level scoping is sequential: a name referenced inside a         *)
(* declaration, a function body included, resolves to the most recent      *)
(* declaration of it that precedes the reference, and a later              *)
(* redeclaration never changes the value seen by declarations made before: *)
(* with let b = str; let g x = b; let b = bool; any later application of g *)
(* reduces to Str, not Bool.                                               *)
(***************************************************************************)
C1_SequentialScoping ==
    \A i \in 1..NumReduced :
        LET e == code[i].expr
            r == prg[i].expr
        IN  \* a function whose body is a name: the body is the value of the
            \* name's last declaration before the function
            /\ IsConstFn(e) => body_of(r) = prg[LastDecl(body_of(e).n, i)].expr
            \* a name as operand: the operand is the value of its last declaration
            /\ (e.k = "Op" /\ r.k = "Op" /\ Len(r.xs) = Len(e.xs)) =>
                \A j \in 1..Len(e.xs) :
                    e.xs[j].k = "Var" => r.xs[j] = prg[LastDecl(e.xs[j].n, i)].expr
            \* an application of such a function, wherever it stands: its value is
            \* that of the name before the function, whatever was declared since
            /\ (e.k = "Op" /\ r.k = "Op" /\ Len(r.xs) = Len(e.xs)) =>
                \A j \in 1..Len(e.xs) :
                    (e.xs[j].k = "App" /\ IsConstFn(code[LastDecl(e.xs[j].xs[1].n, i)].expr)) =>
                        LET k == LastDecl(e.xs[j].xs[1].n, i)
                        IN  r.xs[j] = prg[LastDecl(body_of(code[k].expr).n, k)].expr
            /\ (e.k = "Lambda" /\ body_of(e).k = "Op" /\ body_of(r).k = "Op"
                    /\ Len(body_of(r).xs) = Len(body_of(e).xs)) =>
                \A j \in 1..Len(body_of(e).xs) :
                    LET a == body_of(e).xs[j]
                    IN  (a.k = "App" /\ IsConstFn(code[LastDecl(a.xs[1].n, i)].expr)) =>
                            LET k == LastDecl(a.xs[1].n, i)
                            IN  body_of(r).xs[j] = prg[LastDecl(body_of(code[k].expr).n, k)].expr

C1_Witness ==
    /\ rpc = "done"
    /\ code = <<Pool[1], Pool[2], Pool[3], Pool[6]>>
    /\ prg[2].expr = Lambda(<<Binding("x")>>, Prim("Str"))
    /\ prg[4].expr = Op("Sum", <<Prim("Bool"), Prim("Str")>>)

(***************************************************************************)
(* C2: after the reduce pass the value of a declaration that applies a     *)
(* function is the function body with each parameter replaced by its       *)
(* argument, and a Sum keeps its operands in surface order: for            *)
(* let f x = x | num | g x; let a = f bool; with g returning Str, the      *)
(* value of a is one Op with operator Sum and the operands Bool, Num, Str. *)
(***************************************************************************)
C2_ApplicationSubstitutesInOrder ==
    \A i \in 1..NumReduced :
        LET e == code[i].expr
            k == IF e.k = "App" THEN LastDecl(e.xs[1].n, i) ELSE 0
        IN  (e.k = "App" /\ Len(e.xs) = 2 /\ e.xs[2].k = "Prim") =>
                /\ k > 0
                /\ prg[k].expr.k = "Lambda"
                /\ prg[i].expr =
                       Subst(body_of(prg[k].expr), bindings_of(prg[k].expr)[1].n, e.xs[2])
                /\ (/\ code[k] = Pool[4]
                    /\ LastDecl("g", k) > 0
                    /\ body_of(prg[LastDecl("g", k)].expr) = Prim("Str")) =>
                        prg[i].expr = Op("Sum", <<Prim("Bool"), Prim("Num"), Prim("Str")>>)

C2_Witness ==
    /\ rpc = "done"
    /\ code = TestProgram
    /\ prg[5].name = "a"
    /\ prg[5].expr = Op("Sum", <<Prim("Bool"), Prim("Num"), Prim("Str")>>)

(***************************************************************************)
(* C3: closure after reduction: for every program the pipeline accepts,    *)
(* the scan of the reduced tree with check_vars succeeds: every Var still  *)
(* present resolves to a Binding; a Var with no binding in scope yields    *)
(* IdentifierNotInScope and a Var that resolves to a value that is not a   *)
(* Binding yields Unknown.                                                 *)
(***************************************************************************)
Names == {"a", "b", "f", "g", "x"}

C3_ClosedAfterReduction ==
    /\ rpc # "incomplete"
    /\ rpc \in {"check", "done"} =>
        /\ \A i \in 1..Len(prg) : FreeVars(prg[i].expr, {}) = {}
        /\ \A n \in Names :
            check_vars(env, Var(n)) =
                IF \A i \in 1..(ri - 1) : prg[i].name # n
                THEN RErr("IdentifierNotInScope")
                ELSE RErr("Unknown")
        /\ \A n \in Names :
            check_vars(lambda_env(env, Lambda(<<Binding(n)>>, Var(n))), Var(n)) = ROk(Var(n))

C3_Witness ==
    /\ rpc = "done"
    /\ Len(prg) = MaxStmts
    /\ \E i \in 1..Len(prg) : HasKind(prg[i].expr, "Var")
    /\ \E i \in 1..Len(prg) : code[i].expr.k = "App"

(***************************************************************************)
(* C5 as stated: after the reduce pass no App node and no Lambda node is   *)
(* reachable from the value of any top-level declaration, declarations in  *)
(* function form included.                                                 *)
(***************************************************************************)
C5_NoAppNoLambda ==
    rpc = "done" =>
        \A i \in 1..Len(prg) :
            /\ ~HasKind(prg[i].expr, "App")
            /\ ~HasKind(prg[i].expr, "Lambda")

(***************************************************************************)
(* C5 amended: after the reduce pass no App node is reachable from the     *)
(* value of any top-level declaration; a declaration written in function   *)
(* form keeps a Lambda as its value, with its bindings and a reduced body, *)
(* and the value of a declaration that is not in function form and names   *)
(* no function as a value holds no Lambda.                                 *)
(***************************************************************************)
C5_NoAppLambdaKept ==
    \A i \in 1..NumReduced :
        /\ ~HasKind(prg[i].expr, "App")
        /\ code[i].expr.k = "Lambda" =>
            /\ prg[i].expr.k = "Lambda"
            /\ bindings_of(prg[i].expr) = bindings_of(code[i].expr)
            /\ ~HasKind(body_of(prg[i].expr), "Lambda")
        /\ code[i].expr.k # "Lambda" => ~HasKind(prg[i].expr, "Lambda")

C5_Witness ==
    /\ rpc = "done"
    /\ \E i, j \in 1..Len(prg) :
        /\ code[i].expr.k = "Lambda"
        /\ HasKind(code[i].expr, "App")
        /\ prg[i].expr.k = "Lambda"
        /\ code[j].expr.k = "App"
        /\ prg[j].expr.k = "Op"

(***************************************************************************)
(* C9: the path item built for a relation has an operation in the slot of  *)
(* method m iff the relation's xfers map holds a present transfer for m;   *)
(* an absent transfer yields no operation, and the operation of one method *)
(* is never written into the slot of another.                              *)
(***************************************************************************)
Slot(item, m) ==
    CASE m = "Get" -> item.get
      [] m = "Put" -> item.put
      [] m = "Post" -> item.post
      [] m = "Patch" -> item.patch
      [] m = "Delete" -> item.delete
      [] m = "Options" -> item.options
      [] m = "Head" -> item.head

C9_OperationsProjectTransfers ==
    cpc = "done" =>
        \A m \in MethodSet :
            /\ Slot(cgItem, m).some <=> cgRel.xfers[m].some
            /\ cgRel.xfers[m].some =>
                LET x == cgRel.xfers[m].val
                    op == Slot(cgItem, m).val
                IN  /\ op.request_body.some <=> x.domain # NoSchema
                    /\ op.request_body.some =>
                        op.request_body.val.content[2].schema_kind = x.domain
                    /\ op.responses.default.some <=> x.range # NoSchema
                    /\ op.responses.default.some =>
                        op.responses.default.val.content[2].schema_kind = x.range

C9_Witness ==
    /\ cpc = "done"
    /\ cgRel.xfers["Get"].some
    /\ cgRel.xfers["Put"].some
    /\ cgRel.xfers["Get"].val # cgRel.xfers["Put"].val
    /\ ~cgRel.xfers["Post"].some
    /\ cgItem.get.some /\ cgItem.put.some /\ ~cgItem.post.some

(***************************************************************************)
(* C4 as stated: a Sum or Any operation whose operands do not all have the *)
(* same tag is rejected with InvalidTypes ("ill-formed alternative"), and  *)
(* an alternative is accepted only when every operand tag is a schema tag  *)
(* and all operand tags are mutually equal.                                *)
(***************************************************************************)
IsAlternative == tpc = "checked" /\ tcNode.k = "Op" /\ tcNode.op \in {"Sum", "Any"}

AllSchema(ts) == \A i \in 1..Len(ts) : is_schema(ts[i])

AllEqual(ts) == \A i, j \in 1..Len(ts) : ts[i] = ts[j]

C4_MixedAlternativeRejected ==
    IsAlternative =>
        /\ ~AllEqual(tcNode.exprs) =>
            tcRes = Error("InvalidTypes", "ill-formed alternative")
        /\ tcRes.ok => (AllSchema(tcNode.exprs) /\ AllEqual(tcNode.exprs))

(***************************************************************************)
(* C4 amended: the type-check accepts a Sum or Any operation iff every     *)
(* operand tag is a schema tag, whether or not the tags are equal (so      *)
(* num | {} passes); otherwise it fails with InvalidTypes ("ill-formed     *)
(* alternative").                                                          *)
(***************************************************************************)
C4_AlternativeAcceptedIffAllSchema ==
    IsAlternative =>
        /\ tcRes.ok <=> AllSchema(tcNode.exprs)
        /\ ~AllSchema(tcNode.exprs) =>
            tcRes = Error("InvalidTypes", "ill-formed alternative")

C4_Witness ==
    /\ IsAlternative
    /\ tcNode.op = "Sum"
    /\ tcNode.exprs = <<"Primitive", "Object">>
    /\ tcRes = TcOk

(***************************************************************************)
(* C10: the type-check of a relation succeeds iff the tag of its uri is    *)
(* Uri and, for every method whose transfer is present, the range tag is   *)
(* Content and the domain tag, when a domain is present, is Content;       *)
(* absent transfers and absent domains impose no condition; otherwise the  *)
(* result is InvalidTypes ("ill-formed relation").                         *)
(***************************************************************************)
WellFormedRelation(n) ==
    /\ n.uri = "Uri"
    /\ \A m \in MethodSet :
        n.xfers[m].some =>
            /\ n.xfers[m].range = "Content"
            /\ n.xfers[m].domain = "None" \/ n.xfers[m].domain = "Content"

C10_RelationTypeCheck ==
    (tpc = "checked" /\ tcNode.k = "Rel") =>
        /\ tcRes.ok <=> WellFormedRelation(tcNode)
        /\ tcRes.ok => tcRes = TcOk
        /\ ~tcRes.ok => tcRes = Error("InvalidTypes", "ill-formed relation")

C10_Witness ==
    /\ tpc = "checked"
    /\ tcNode.k = "Rel"
    /\ tcRes = TcOk
    /\ \E m1, m2, m3 \in MethodSet :
        /\ tcNode.xfers[m1].some /\ tcNode.xfers[m1].domain = "None"
        /\ tcNode.xfers[m2].some /\ tcNode.xfers[m2].domain = "Content"
        /\ ~tcNode.xfers[m3].some

(***************************************************************************)
(* C11: the type-check of a Join operation succeeds iff the tag of every   *)
(* operand is exactly Object; one operand with any other tag (Primitive,   *)
(* Uri, Array, Content, Relation or an unresolved variable) makes it fail  *)
(* with InvalidTypes ("ill-formed join").                                  *)
(***************************************************************************)
IsJoin == tpc = "checked" /\ tcNode.k = "Op" /\ tcNode.op = "Join"

C11_JoinOverObjects ==
    IsJoin =>
        /\ tcRes.ok <=> (\A i \in 1..Len(tcNode.exprs) : tcNode.exprs[i] = "Object")
        /\ tcRes.ok => tcRes = TcOk
        /\ (\E i \in 1..Len(tcNode.exprs) : tcNode.exprs[i] # "Object") =>
            tcRes = Error("InvalidTypes", "ill-formed join")

C11_Witness ==
    /\ IsJoin
    /\ Len(tcNode.exprs) = MaxOperands
    /\ Cardinality({i \in 1..Len(tcNode.exprs) : tcNode.exprs[i] # "Object"}) = 1
    /\ \E i \in 1..Len(tcNode.exprs) : tcNode.exprs[i] \in {"Primitive", "Array", "Var"}
    /\ tcRes = Error("InvalidTypes", "ill-formed join")

(***************************************************************************)
(* C12: the type-check of a URI succeeds iff the schema of every Variable  *)
(* segment has the tag Primitive; Literal segments impose no condition, so *)
(* a URI without variable segments, one with no segment included, always   *)
(* passes; otherwise the result is InvalidTypes ("ill-formed URI").        *)
(***************************************************************************)
IsUri == tpc = "checked" /\ tcNode.k = "Uri"

VariablesPrimitive(sp) ==
    \A i \in 1..Len(sp) : sp[i].variable => sp[i].tag = "Primitive"

C12_UriVariablesPrimitive ==
    IsUri =>
        /\ tcRes.ok <=> VariablesPrimitive(tcNode.spec)
        /\ tcRes.ok => tcRes = TcOk
        /\ (\A i \in 1..Len(tcNode.spec) : ~tcNode.spec[i].variable) => tcRes = TcOk
        /\ ~VariablesPrimitive(tcNode.spec) => tcRes = Error("InvalidTypes", "ill-formed URI")

C12_Witness ==
    /\ IsUri
    /\ Len(tcNode.spec) = MaxSegments
    /\ \E i, j \in 1..Len(tcNode.spec) :
        /\ ~tcNode.spec[i].variable
        /\ tcNode.spec[j].variable
        /\ tcNode.spec[j].tag = "Primitive"
    /\ tcRes = TcOk

(***************************************************************************)
(* C6: a lexer error is fatal: whenever the lexer reports errors, tokenize *)
(* returns the first reported error and no token list (even if recovery    *)
(* produced tokens), parse returns that error without running the grammar  *)
(* analysis; the analysis runs only after tokenize completed successfully. *)
(***************************************************************************)
C6_LexErrorIsFatal ==
    /\ (lpc \in {"tokenized", "done"} /\ lexOut.errs # <<>>) =>
        /\ ~tokRes.ok
        /\ tokRes.err = lexOut.errs[1]
        /\ tokRes.val = <<>>
        /\ analyzed = 0
    /\ (lpc = "done" /\ lexOut.errs # <<>>) =>
        /\ ~parseRes.ok
        /\ parseRes.err = lexOut.errs[1]
    /\ analyzed > 0 => (tokRes.ok /\ lpc = "done" /\ lexOut.errs = <<>>)
    /\ analyzed <= 1

C6_Witness ==
    /\ lpc = "done"
    /\ Len(lexOut.errs) = 2
    /\ lexOut.errs[1] # lexOut.errs[2]
    /\ lexOut.tokens.some
    /\ Len(lexOut.tokens.val) = 2
    /\ parseRes = Err(lexOut.errs[1])

(***************************************************************************)
(* C7: stream() yields exactly the non-trivia tokens, in push order, each  *)
(* as an alias (kind, index) with its span, such that get(index) returns a *)
(* token of that kind with that span; trivia tokens never appear in the    *)
(* stream but stay retrievable with get through the index push returned.   *)
(***************************************************************************)
NonTrivia(log) == SelectSeq(log, LAMBDA p : ~is_trivia(p.tok))

C7_StreamIsNonTriviaInOrder ==
    LET st == stream(list).items
        nt == NonTrivia(pushed)
    IN  /\ Len(st) = Len(nt)
        /\ \A i \in 1..Len(st) :
            /\ i <= Len(nt)
            /\ st[i] = <<TokenAlias(nt[i].tok.kind, nt[i].idx), nt[i].span>>
            /\ get(list, st[i][1].index)[1].kind = st[i][1].kind
            /\ get(list, st[i][1].index)[2] = st[i][2]
            /\ ~is_trivia(get(list, st[i][1].index)[1])
        /\ \A i \in 1..Len(pushed) :
            get(list, pushed[i].idx) = <<pushed[i].tok, pushed[i].span>>

C7_Witness ==
    /\ lpc = "api"
    /\ \E i, j, k \in 1..Len(pushed) :
        /\ i < j /\ j < k
        /\ ~is_trivia(pushed[i].tok)
        /\ is_trivia(pushed[j].tok)
        /\ ~is_trivia(pushed[k].tok)
        /\ pushed[i].tok.kind # pushed[k].tok.kind
    /\ Len(stream(list).items) = 2

(***************************************************************************)
(* C8: interning is deduplicating and lossless: two register calls return  *)
(* the same symbol iff their strings are equal, resolve(register(s)) = s,  *)
(* and a symbol issued earlier still resolves to the same string after any *)
(* later register calls.                                                   *)
(***************************************************************************)
C8_InternDedupLossless ==
    /\ \A i, j \in 1..Len(issued) :
        (issued[i][2] = issued[j][2]) <=> (issued[i][1] = issued[j][1])
    /\ \A i \in 1..Len(issued) : resolve(dict, issued[i][2]) = issued[i][1]

C8_Witness ==
    /\ lpc = "api"
    /\ \E i, j, k \in 1..Len(issued) :
        /\ i < j /\ j < k
        /\ issued[i][1] = issued[k][1]
        /\ issued[i][1] # issued[j][1]
        /\ issued[i][2] = issued[k][2]

====
